---- MODULE Spec2Model ----
(***************************************************************************)
(* Model of core/rmutex.c: the recursive mutex of RIOT.                    *)
(*                                                                         *)
(* Every access to shared memory (the inner mutex, the atomic owner field, *)
(* the refcount field) is one step of the calling thread; the entry into a *)
(* function is merged with its first access.  pc[t] names the source       *)
(* statement thread t executes next.                                       *)
(***************************************************************************)
EXTENDS Integers, FiniteSets, Sequences, TLC

\* ------------------------------------------------------------------ bounds
NThreads == 3
MaxDepth == 2

Threads == 1..NThreads

\* KERNEL_PID_UNDEF: the owner of a lock nobody holds (thread ids are 1..N)
KERNEL_PID_UNDEF == 0
\* the content of the local variable `owner` before line 71/109 assigns it
UNINIT == -1
\* "no call has returned yet"
NoReturn == [t |-> 0, op |-> "none", val |-> 0, waited |-> FALSE]

VARIABLES
    mutex,        \* rmutex->mutex: the thread holding the inner mutex, or KERNEL_PID_UNDEF
    owner,        \* rmutex->owner (atomic)
    refcount,     \* rmutex->refcount
    pc,           \* pc[t]: the statement thread t executes next
    local_owner,  \* local_owner[t]: the local variable `owner` of t's call
    held,         \* held[t]: acquisitions returned to t minus unlocks returned to t
    returned      \* the call that returned last: thread, operation, value

vars == <<mutex, owner, refcount, pc, local_owner, held, returned>>

LockPCs    == {"lock_read", "lock_wait", "lock_assert", "lock_store", "lock_inc"}
TrylockPCs == {"trylock_read", "trylock_assert", "trylock_store", "trylock_inc"}
UnlockPCs  == {"unlock_assert2", "unlock_dec", "unlock_check", "unlock_clear",
               "unlock_release"}
PCs        == {"idle", "assert_failed"} \cup LockPCs \cup TrylockPCs \cup UnlockPCs

Returns == {NoReturn} \cup
           [t : Threads, op : {"lock"}, val : {0}, waited : BOOLEAN] \cup
           [t : Threads, op : {"trylock"}, val : {0, 1}, waited : {FALSE}] \cup
           [t : Threads, op : {"unlock"}, val : {0}, waited : {FALSE}]

TypeOK ==
    /\ mutex \in Threads \cup {KERNEL_PID_UNDEF}
    /\ owner \in Threads \cup {KERNEL_PID_UNDEF}
    /\ refcount \in 0..MaxDepth
    /\ pc \in [Threads -> PCs]
    /\ local_owner \in [Threads -> Threads \cup {KERNEL_PID_UNDEF, UNINIT}]
    /\ held \in [Threads -> 0..MaxDepth]
    /\ returned \in Returns

\* a failed assert() halts the whole program (core_panic)
Running == \A t \in Threads : pc[t] # "assert_failed"

Init ==
    /\ mutex = KERNEL_PID_UNDEF
    /\ owner = KERNEL_PID_UNDEF
    /\ refcount = 0
    /\ pc = [t \in Threads |-> "idle"]
    /\ local_owner = [t \in Threads |-> UNINIT]
    /\ held = [t \in Threads |-> 0]
    /\ returned = NoReturn

\* ------------------------------------------------- the inner mutex (mutex.h)
\* mutex_trylock succeeds exactly when nobody holds the mutex
mutex_trylock_ok == mutex = KERNEL_PID_UNDEF

\* mutex_lock returns once it has taken the free mutex; until then the caller
\* is suspended
mutex_lock(t) ==
    /\ mutex = KERNEL_PID_UNDEF
    /\ mutex' = t

mutex_unlock(t) == mutex' = KERNEL_PID_UNDEF

\* ------------------------------------------------------------ helpers
Goto(t, l) == pc' = [pc EXCEPT ![t] = l]

\* the function returns: its local goes out of scope
Return(t, o, v) ==
    /\ pc' = [pc EXCEPT ![t] = "idle"]
    /\ returned' = [t |-> t, op |-> o, val |-> v,
                    waited |-> (o = "lock" /\ local_owner[t] \notin {UNINIT, t})]
    /\ local_owner' = [local_owner EXCEPT ![t] = UNINIT]

\* line 75, line 112: owner != thread_getpid()
foreign(o, t) == o # t

\* line 143: rmutex->refcount == 0
last_unlock_mut_always(rc) == TRUE

last_unlock(rc) == rc = 0

\* ------------------------------------------------------------ rmutex_lock
rmutex_lock_try_mut_early_store(t) ==
    /\ Running
    /\ pc[t] = "idle"
    /\ held[t] < MaxDepth
    /\ owner' = t
    /\ IF mutex_trylock_ok
         THEN /\ mutex' = t
              /\ Goto(t, "lock_store")
         ELSE /\ Goto(t, "lock_read")
              /\ UNCHANGED mutex
    /\ UNCHANGED <<refcount, local_owner, held, returned>>

\* line 41: mutex_trylock(&rmutex->mutex)
rmutex_lock_try(t) ==
    /\ Running
    /\ pc[t] = "idle"
    /\ held[t] < MaxDepth
    /\ IF mutex_trylock_ok
         THEN /\ mutex' = t
              /\ Goto(t, "lock_store")
         ELSE /\ Goto(t, "lock_read")
              /\ UNCHANGED mutex
    /\ UNCHANGED <<owner, refcount, local_owner, held, returned>>

rmutex_lock_read_mut_block(t) ==
    /\ Running
    /\ pc[t] = "lock_read"
    /\ local_owner' = [local_owner EXCEPT ![t] = owner]
    /\ Goto(t, "lock_wait")
    /\ UNCHANGED <<mutex, owner, refcount, held, returned>>

\* line 71 and the branch of line 75
rmutex_lock_read(t) ==
    /\ Running
    /\ pc[t] = "lock_read"
    /\ local_owner' = [local_owner EXCEPT ![t] = owner]
    /\ IF foreign(owner, t) THEN Goto(t, "lock_wait") ELSE Goto(t, "lock_assert")
    /\ UNCHANGED <<mutex, owner, refcount, held, returned>>

rmutex_lock_wait_mut_nowait(t) ==
    /\ Running
    /\ pc[t] = "lock_wait"
    /\ Goto(t, "lock_store")
    /\ UNCHANGED <<mutex, owner, refcount, local_owner, held, returned>>

\* line 79: mutex_lock(&rmutex->mutex)
rmutex_lock_wait(t) ==
    /\ Running
    /\ pc[t] = "lock_wait"
    /\ mutex_lock(t)
    /\ Goto(t, "lock_store")
    /\ UNCHANGED <<owner, refcount, local_owner, held, returned>>

\* line 83: assert(rmutex->refcount>0)
rmutex_lock_assert(t) ==
    /\ Running
    /\ pc[t] = "lock_assert"
    /\ IF refcount > 0 THEN Goto(t, "lock_store") ELSE Goto(t, "assert_failed")
    /\ UNCHANGED <<mutex, owner, refcount, local_owner, held, returned>>

rmutex_lock_store_mut_nostore(t) ==
    /\ Running
    /\ pc[t] = "lock_store"
    /\ Goto(t, "lock_inc")
    /\ UNCHANGED <<mutex, owner, refcount, local_owner, held, returned>>

\* line 94
rmutex_lock_store(t) ==
    /\ Running
    /\ pc[t] = "lock_store"
    /\ owner' = t
    /\ Goto(t, "lock_inc")
    /\ UNCHANGED <<mutex, refcount, local_owner, held, returned>>

rmutex_lock_inc_mut_noinc(t) ==
    /\ Running
    /\ pc[t] = "lock_inc"
    /\ held' = [held EXCEPT ![t] = @ + 1]
    /\ Return(t, "lock", 0)
    /\ UNCHANGED <<mutex, owner, refcount>>

\* line 99, and the return
rmutex_lock_inc(t) ==
    /\ Running
    /\ pc[t] = "lock_inc"
    /\ refcount' = refcount + 1
    /\ held' = [held EXCEPT ![t] = @ + 1]
    /\ Return(t, "lock", 0)
    /\ UNCHANGED <<mutex, owner>>

\* --------------------------------------------------------- rmutex_trylock
\* line 107
rmutex_trylock_try(t) ==
    /\ Running
    /\ pc[t] = "idle"
    /\ held[t] < MaxDepth
    /\ IF mutex_trylock_ok
         THEN /\ mutex' = t
              /\ Goto(t, "trylock_store")
         ELSE /\ Goto(t, "trylock_read")
              /\ UNCHANGED mutex
    /\ UNCHANGED <<owner, refcount, local_owner, held, returned>>

rmutex_trylock_read_mut_second(t) ==
    /\ Running
    /\ pc[t] = "trylock_read"
    /\ IF foreign(owner, t)
         THEN IF mutex_trylock_ok
                THEN /\ mutex' = t
                     /\ local_owner' = [local_owner EXCEPT ![t] = owner]
                     /\ Goto(t, "trylock_store")
                     /\ UNCHANGED returned
                ELSE /\ Return(t, "trylock", 0)
                     /\ UNCHANGED mutex
         ELSE /\ local_owner' = [local_owner EXCEPT ![t] = owner]
              /\ Goto(t, "trylock_assert")
              /\ UNCHANGED <<returned, mutex>>
    /\ UNCHANGED <<owner, refcount, held>>

rmutex_trylock_read_mut_steal(t) ==
    /\ Running
    /\ pc[t] = "trylock_read"
    /\ owner' = t
    /\ IF foreign(owner, t)
         THEN Return(t, "trylock", 0)
         ELSE /\ local_owner' = [local_owner EXCEPT ![t] = owner]
              /\ Goto(t, "trylock_assert")
              /\ UNCHANGED returned
    /\ UNCHANGED <<mutex, refcount, held>>

rmutex_trylock_read_mut_block(t) ==
    /\ Running
    /\ pc[t] = "trylock_read"
    /\ local_owner' = [local_owner EXCEPT ![t] = owner]
    /\ IF foreign(owner, t) THEN Goto(t, "lock_wait") ELSE Goto(t, "trylock_assert")
    /\ UNCHANGED <<mutex, owner, refcount, held, returned>>

rmutex_trylock_read_mut_fallthrough(t) ==
    /\ Running
    /\ pc[t] = "trylock_read"
    /\ local_owner' = [local_owner EXCEPT ![t] = owner]
    /\ IF foreign(owner, t) THEN Goto(t, "trylock_store") ELSE Goto(t, "trylock_assert")
    /\ UNCHANGED <<mutex, owner, refcount, held, returned>>

\* line 109, the branch of line 112 and the return of line 114
rmutex_trylock_read(t) ==
    /\ Running
    /\ pc[t] = "trylock_read"
    /\ IF foreign(owner, t)
         THEN Return(t, "trylock", 0)
         ELSE /\ local_owner' = [local_owner EXCEPT ![t] = owner]
              /\ Goto(t, "trylock_assert")
              /\ UNCHANGED returned
    /\ UNCHANGED <<mutex, owner, refcount, held>>

\* line 118
rmutex_trylock_assert(t) ==
    /\ Running
    /\ pc[t] = "trylock_assert"
    /\ IF refcount > 0 THEN Goto(t, "trylock_store") ELSE Goto(t, "assert_failed")
    /\ UNCHANGED <<mutex, owner, refcount, local_owner, held, returned>>

rmutex_trylock_store_mut_nostore(t) ==
    /\ Running
    /\ pc[t] = "trylock_store"
    /\ Goto(t, "trylock_inc")
    /\ UNCHANGED <<mutex, owner, refcount, local_owner, held, returned>>

\* line 125
rmutex_trylock_store(t) ==
    /\ Running
    /\ pc[t] = "trylock_store"
    /\ owner' = t
    /\ Goto(t, "trylock_inc")
    /\ UNCHANGED <<mutex, refcount, local_owner, held, returned>>

rmutex_trylock_inc_mut_noinc(t) ==
    /\ Running
    /\ pc[t] = "trylock_inc"
    /\ held' = [held EXCEPT ![t] = @ + 1]
    /\ Return(t, "trylock", 1)
    /\ UNCHANGED <<mutex, owner, refcount>>

\* lines 128-129
rmutex_trylock_inc(t) ==
    /\ Running
    /\ pc[t] = "trylock_inc"
    /\ refcount' = refcount + 1
    /\ held' = [held EXCEPT ![t] = @ + 1]
    /\ Return(t, "trylock", 1)
    /\ UNCHANGED <<mutex, owner>>

\* ---------------------------------------------------------- rmutex_unlock
rmutex_unlock_assert1_mut_noassert(t) ==
    /\ Running
    /\ pc[t] = "idle"
    /\ Goto(t, "unlock_assert2")
    /\ UNCHANGED <<mutex, owner, refcount, local_owner, held, returned>>

\* line 134: assert(owner == thread_getpid())
rmutex_unlock_assert1(t) ==
    /\ Running
    /\ pc[t] = "idle"
    /\ IF owner = t THEN Goto(t, "unlock_assert2") ELSE Goto(t, "assert_failed")
    /\ UNCHANGED <<mutex, owner, refcount, local_owner, held, returned>>

\* line 135: assert(rmutex->refcount > 0)
rmutex_unlock_assert2(t) ==
    /\ Running
    /\ pc[t] = "unlock_assert2"
    /\ IF refcount > 0 THEN Goto(t, "unlock_dec") ELSE Goto(t, "assert_failed")
    /\ UNCHANGED <<mutex, owner, refcount, local_owner, held, returned>>

\* line 140
rmutex_unlock_dec(t) ==
    /\ Running
    /\ pc[t] = "unlock_dec"
    /\ refcount' = refcount - 1
    /\ Goto(t, "unlock_check")
    /\ UNCHANGED <<mutex, owner, local_owner, held, returned>>

\* line 143, and the return when the lock is still held
rmutex_unlock_check(t) ==
    /\ Running
    /\ pc[t] = "unlock_check"
    /\ IF last_unlock(refcount)
         THEN /\ Goto(t, "unlock_clear")
              /\ UNCHANGED <<held, returned, local_owner>>
         ELSE /\ held' = [held EXCEPT ![t] = @ - 1]
              /\ Return(t, "unlock", 0)
    /\ UNCHANGED <<mutex, owner, refcount>>

rmutex_unlock_clear_mut_release_first(t) ==
    /\ Running
    /\ pc[t] = "unlock_clear"
    /\ mutex_unlock(t)
    /\ Goto(t, "unlock_release")
    /\ UNCHANGED <<owner, refcount, local_owner, held, returned>>

rmutex_unlock_clear_mut_noclear(t) ==
    /\ Running
    /\ pc[t] = "unlock_clear"
    /\ Goto(t, "unlock_release")
    /\ UNCHANGED <<mutex, owner, refcount, local_owner, held, returned>>

\* line 149
rmutex_unlock_clear(t) ==
    /\ Running
    /\ pc[t] = "unlock_clear"
    /\ owner' = KERNEL_PID_UNDEF
    /\ Goto(t, "unlock_release")
    /\ UNCHANGED <<mutex, refcount, local_owner, held, returned>>

rmutex_unlock_release_mut_norelease(t) ==
    /\ Running
    /\ pc[t] = "unlock_release"
    /\ held' = [held EXCEPT ![t] = @ - 1]
    /\ Return(t, "unlock", 0)
    /\ UNCHANGED <<mutex, owner, refcount>>

\* line 153, and the return
rmutex_unlock_release(t) ==
    /\ Running
    /\ pc[t] = "unlock_release"
    /\ mutex_unlock(t)
    /\ held' = [held EXCEPT ![t] = @ - 1]
    /\ Return(t, "unlock", 0)
    /\ UNCHANGED <<owner, refcount>>

\* ------------------------------------------------------------ specification
lock_step(t) ==
    \/ rmutex_lock_try(t)
    \/ rmutex_lock_read(t)
    \/ rmutex_lock_wait(t)
    \/ rmutex_lock_assert(t)
    \/ rmutex_lock_store(t)
    \/ rmutex_lock_inc(t)

trylock_step(t) ==
    \/ rmutex_trylock_try(t)
    \/ rmutex_trylock_read(t)
    \/ rmutex_trylock_assert(t)
    \/ rmutex_trylock_store(t)
    \/ rmutex_trylock_inc(t)

unlock_step(t) ==
    \/ rmutex_unlock_assert1(t)
    \/ rmutex_unlock_assert2(t)
    \/ rmutex_unlock_dec(t)
    \/ rmutex_unlock_check(t)
    \/ rmutex_unlock_clear(t)
    \/ rmutex_unlock_release(t)

Step(t) == lock_step(t) \/ trylock_step(t) \/ unlock_step(t)

Next == \E t \in Threads : Step(t)

Spec == Init /\ [][Next]_vars

\* ------------------------------------------------------------ vocabulary
\* thread t made a step
Stepped(t) == pc'[t] # pc[t]

\* thread t is inside rmutex_lock or rmutex_trylock after this step or before it
Acquiring(t) == pc[t] \in LockPCs \cup TrylockPCs \/ pc'[t] \in LockPCs \cup TrylockPCs

Unlocking(t) == pc[t] \in UnlockPCs \/ pc'[t] \in UnlockPCs

\* ------------------------------------------------------------------- C1
\* C1: mutual exclusion. Two distinct threads never both hold the recursive
\* lock: while t1 has an acquisition it has not yet released (held[t1] > 0,
\* which lasts until the unlock that brings its depth to 0 returns), no
\* rmutex_trylock of another thread t2 has returned 1 and no rmutex_lock of
\* t2 has returned (held[t2] = 0), and t2 is not past the acquisition of the
\* inner mutex.
C1_MutualExclusion ==
    \A t1, t2 \in Threads :
        (t1 # t2 /\ held[t1] > 0) =>
            /\ held[t2] = 0
            /\ mutex # t2
            /\ pc[t2] \notin {"lock_store", "lock_inc", "trylock_store", "trylock_inc"}

\* t1 holds the lock at full depth, t2 is suspended in rmutex_lock and the
\* rmutex_trylock of t3 has just returned 0
C1_Witness ==
    \E t1, t2, t3 \in Threads :
        /\ held[t1] = MaxDepth
        /\ pc[t2] = "lock_wait"
        /\ returned = [t |-> t3, op |-> "trylock", val |-> 0, waited |-> FALSE]
        /\ t3 \notin {t1, t2}
\* ------------------------------------------------------------------- C2
\* C2: recursive re-entry never blocks. A thread t that holds the lock at
\* depth n = held[t] >= 1 and is inside rmutex_lock or rmutex_trylock is never
\* at the blocking acquire of the inner mutex, can always take its next step
\* (as long as the program runs), never touches the inner mutex, and returns
\* with owner = t and depth n + 1, rmutex_trylock returning 1.
C2_ReentryStep ==
    \A t \in Threads :
        (held[t] >= 1 /\ Stepped(t) /\ Acquiring(t)) =>
            /\ pc'[t] \notin {"lock_wait", "assert_failed"}
            /\ mutex' = mutex
            /\ mutex = t
            /\ pc'[t] = "idle" =>
                  /\ owner' = t
                  /\ refcount' = held[t] + 1
                  /\ held'[t] = held[t] + 1
                  /\ returned'.t = t
                  /\ returned'.op \in {"lock", "trylock"}
                  /\ returned'.op = "trylock" => returned'.val = 1
                  /\ ~returned'.waited

C2_ReentryEnabled ==
    \A t \in Threads :
        (Running /\ held[t] >= 1 /\ pc[t] \in LockPCs \cup TrylockPCs) =>
            /\ pc[t] # "lock_wait"
            /\ ENABLED Step(t)

\* C2 (recursive re-entry never blocks): the holder inside an acquire can
\* always step, and each of its steps is as C2_ReentryStep states
C2_ReentryNeverBlocks == []C2_ReentryEnabled /\ [][C2_ReentryStep]_vars

\* a re-entrant rmutex_lock has returned at depth 2 while another thread is
\* suspended in rmutex_lock
C2_Witness ==
    \E t, u \in Threads :
        /\ returned = [t |-> t, op |-> "lock", val |-> 0, waited |-> FALSE]
        /\ held[t] = 2
        /\ refcount = 2
        /\ pc[t] = "idle"
        /\ pc[u] = "lock_wait"

\* ------------------------------------------------------------------- C3
\* C3: matching release count. While t holds the lock at depth n = held[t],
\* the inner mutex stays with t; a step of rmutex_unlock changes the inner
\* mutex only when it is the release of the unlock entered at depth 1; an
\* unlock entered at depth n > 1 leaves owner and the inner mutex unchanged
\* and returns with depth n - 1.
C3_UnlockStep ==
    \A t \in Threads :
        /\ (mutex = t /\ mutex' # t) =>
              (pc[t] = "unlock_release" /\ held[t] = 1 /\ mutex' = KERNEL_PID_UNDEF)
        /\ (Stepped(t) /\ Unlocking(t) /\ pc'[t] # "assert_failed") =>
              /\ held[t] >= 1
              /\ mutex = t
              /\ refcount' \in {refcount, refcount - 1}
              /\ held[t] > 1 => (owner' = owner /\ owner = t /\ mutex' = mutex)
              /\ pc'[t] = "idle" =>
                    /\ held'[t] = held[t] - 1
                    /\ refcount' = held[t] - 1
                    /\ returned' = [t |-> t, op |-> "unlock", val |-> 0, waited |-> FALSE]

C3_HeldKeepsMutex ==
    \A t \in Threads :
        held[t] >= 1 =>
            /\ mutex = t
            /\ pc[t] = "idle" => (owner = t /\ refcount = held[t])

\* C3 (matching release count): the holder keeps the inner mutex, and each
\* step of rmutex_unlock is as C3_UnlockStep states
C3_MatchingRelease == []C3_HeldKeepsMutex /\ [][C3_UnlockStep]_vars

\* the first of two unlocks has returned: depth 1, still owned, and another
\* thread is still suspended
C3_Witness ==
    \E t, u \in Threads :
        /\ returned = [t |-> t, op |-> "unlock", val |-> 0, waited |-> FALSE]
        /\ held[t] = 1
        /\ refcount = 1
        /\ owner = t
        /\ mutex = t
        /\ pc[u] = "lock_wait"

\* ------------------------------------------------------------------- C4
\* C4: a rmutex_trylock whose acquire attempt finds the inner mutex held by
\* another thread goes on to read owner without changing owner, depth or the
\* inner mutex; a non-owner that reads owner returns 0; and the step that
\* returns 0 leaves owner, depth and the inner mutex as they were.
C4_FailingTrylockStep ==
    \A t \in Threads :
        Stepped(t) =>
            /\ (pc[t] = "idle" /\ pc'[t] \in TrylockPCs /\ mutex \notin {KERNEL_PID_UNDEF, t}) =>
                  /\ pc'[t] = "trylock_read"
                  /\ UNCHANGED <<owner, refcount, mutex, held>>
            /\ (pc[t] = "trylock_read" /\ held[t] = 0) =>
                  /\ pc'[t] = "idle"
                  /\ returned' = [t |-> t, op |-> "trylock", val |-> 0, waited |-> FALSE]
            /\ (pc[t] \in TrylockPCs /\ pc'[t] = "idle" /\ returned'.val = 0) =>
                  /\ pc[t] = "trylock_read"
                  /\ UNCHANGED <<owner, refcount, mutex, held>>

\* C4 (failing rmutex_trylock): every step is as C4_FailingTrylockStep states
C4_FailingTrylock == [][C4_FailingTrylockStep]_vars

\* a rmutex_trylock returned 0 to t while u holds the lock at depth 2
C4_Witness ==
    \E t, u \in Threads :
        /\ t # u
        /\ returned = [t |-> t, op |-> "trylock", val |-> 0, waited |-> FALSE]
        /\ held[u] = 2
        /\ owner = u
        /\ refcount = 2
        /\ held[t] = 0

\* ------------------------------------------------------------------- C5
\* C5: fatal misuse detection. rmutex_unlock called by a thread that holds no
\* acquisition (the lock is Free, or another thread is the owner or is in the
\* middle of an operation) fails its assertion in its first step and changes
\* neither depth nor owner nor the inner mutex; no thread without an
\* acquisition is ever past the assertion.
C5_MisuseStep ==
    \A t \in Threads :
        (held[t] = 0 /\ pc[t] = "idle" /\ pc'[t] \in UnlockPCs \cup {"assert_failed"}) =>
            /\ pc'[t] = "assert_failed"
            /\ UNCHANGED <<owner, refcount, mutex, held, returned>>

C5_NoSilentUnlock ==
    \A t \in Threads : pc[t] \in UnlockPCs => held[t] >= 1

\* C5 (fatal misuse detection): no thread without an acquisition is past the
\* assertion, and each misused call is as C5_MisuseStep states
C5_FatalMisuse == []C5_NoSilentUnlock /\ [][C5_MisuseStep]_vars

\* the assertion failed for t while u is in the middle of rmutex_unlock and v
\* is in the middle of rmutex_lock
C5_Witness ==
    \E t, u, v \in Threads :
        /\ pc[t] = "assert_failed"
        /\ held[t] = 0
        /\ pc[u] = "unlock_release"
        /\ pc[v] = "lock_wait"

\* ------------------------------------------------------------------- C6
\* C6: round trip. The rmutex_unlock that returns a thread's last acquisition
\* (N locks followed by N unlocks, for every N up to MaxDepth) leaves the lock
\* as it was initially: depth 0, owner KERNEL_PID_UNDEF, inner mutex not held;
\* and whenever no thread holds an acquisition or is inside an operation the
\* lock is in that state.
C6_LastUnlockStep ==
    \A t \in Threads :
        (pc[t] \in UnlockPCs /\ pc'[t] = "idle" /\ held[t] = 1) =>
            /\ refcount' = 0
            /\ owner' = KERNEL_PID_UNDEF
            /\ mutex' = KERNEL_PID_UNDEF
            /\ held'[t] = 0

C6_QuiescentIsFree ==
    (\A t \in Threads : held[t] = 0 /\ pc[t] = "idle") =>
        (refcount = 0 /\ owner = KERNEL_PID_UNDEF /\ mutex = KERNEL_PID_UNDEF)

\* C6 (round trip): a quiescent lock nobody holds is in the initial state, and
\* the last unlock is as C6_LastUnlockStep states
C6_RoundTrip == []C6_QuiescentIsFree /\ [][C6_LastUnlockStep]_vars

\* the last unlock has returned and the lock is back in its initial state
C6_Witness ==
    /\ returned.op = "unlock"
    /\ \A t \in Threads : held[t] = 0 /\ pc[t] = "idle"
    /\ refcount = 0
    /\ owner = KERNEL_PID_UNDEF
    /\ mutex = KERNEL_PID_UNDEF
\* --------------------------------------------------------------- fairness
\* the steps of t that follow the first access of a call and are not the
\* blocking acquire: a scheduled thread takes them
Internal(t) ==
    /\ pc[t] \notin {"idle", "lock_wait", "assert_failed"}
    /\ \/ rmutex_lock_read(t)
       \/ rmutex_lock_assert(t)
       \/ rmutex_lock_store(t)
       \/ rmutex_lock_inc(t)
       \/ rmutex_trylock_read(t)
       \/ rmutex_trylock_assert(t)
       \/ rmutex_trylock_store(t)
       \/ rmutex_trylock_inc(t)
       \/ rmutex_unlock_assert2(t)
       \/ rmutex_unlock_dec(t)
       \/ rmutex_unlock_check(t)
       \/ rmutex_unlock_clear(t)
       \/ rmutex_unlock_release(t)

\* some thread suspended in mutex_lock is granted the inner mutex
Grant == \E t \in Threads : rmutex_lock_wait(t)

\* threads are scheduled fairly, and the inner mutex, when it is free again and
\* again, is eventually granted to one of the threads suspended on it (which
\* one is left to the primitive)
Fairness ==
    /\ \A t \in Threads : WF_vars(Internal(t))
    /\ SF_vars(Grant)

FairSpec == Spec /\ Fairness

\* ------------------------------------------------------------------- C7
\* C7: blocked acquirers make progress. No state in which a thread is
\* suspended in rmutex_lock is a deadlock (some thread can take a step of an
\* operation, or a holder can call rmutex_unlock); and under fair scheduling,
\* if the program keeps running and every thread that holds the lock
\* eventually gives back all its acquisitions, then whenever a thread is
\* suspended in rmutex_lock, a thread that was suspended eventually returns
\* from rmutex_lock as owner at depth 1.
Blocked(t) == pc[t] = "lock_wait"

WaitedReturn(t) ==
    /\ returned = [t |-> t, op |-> "lock", val |-> 0, waited |-> TRUE]
    /\ pc[t] = "idle"
    /\ owner = t
    /\ refcount = 1
    /\ held[t] = 1

Progress(t) ==
    \/ Internal(t)
    \/ rmutex_lock_wait(t)
    \/ (held[t] > 0 /\ rmutex_unlock_assert1(t))

C7_NoDeadlock ==
    (Running /\ \E t \in Threads : Blocked(t)) => \E u \in Threads : ENABLED Progress(u)

\* the program keeps running and every holding period ends: again and again
\* no thread holds an acquisition
C7_WellBehaved == []<>(Running /\ \A t \in Threads : held[t] = 0)

\* C7 (blocked acquirers make progress): no deadlock, and under
\* C7_WellBehaved a suspended thread always eventually returns as owner
C7_BlockedProgress ==
    /\ []C7_NoDeadlock
    /\ C7_WellBehaved =>
          ((\E t \in Threads : Blocked(t)) ~> (\E u \in Threads : WaitedReturn(u)))

\* a thread that was suspended has returned from rmutex_lock while another
\* thread is still suspended
C7_Witness ==
    \E t, u \in Threads :
        /\ WaitedReturn(t)
        /\ Blocked(u)
\* ------------------------------------------------------------------- C8
\* C8: rmutex_lock is the only operation that can suspend its caller. A thread
\* inside rmutex_trylock or rmutex_unlock can always take its next step while
\* the program runs, each of its steps brings it strictly closer to the
\* return (at most 6 steps per call), and it never reaches the
\* blocking acquire of the inner mutex.
StepsLeft(l) ==
    CASE l = "unlock_assert2" -> 5
      [] l \in {"unlock_dec", "trylock_read"} -> 4
      [] l \in {"unlock_check", "trylock_assert"} -> 3
      [] l \in {"unlock_clear", "trylock_store"} -> 2
      [] l \in {"unlock_release", "trylock_inc"} -> 1
      [] l \in {"idle", "assert_failed"} -> 0
      [] OTHER -> 6

C8_NeverSuspended ==
    \A t \in Threads :
        Running =>
            /\ pc[t] \in TrylockPCs => ENABLED trylock_step(t)
            /\ pc[t] \in UnlockPCs => ENABLED unlock_step(t)
            /\ pc[t] = "idle" => ENABLED rmutex_unlock_assert1(t)
            /\ (pc[t] = "idle" /\ held[t] < MaxDepth) => ENABLED rmutex_trylock_try(t)

C8_BoundedStep ==
    \A t \in Threads :
        Stepped(t) =>
            /\ pc[t] \in TrylockPCs \cup UnlockPCs =>
                  /\ pc'[t] \notin LockPCs
                  /\ StepsLeft(pc'[t]) < StepsLeft(pc[t])
            /\ (pc[t] = "idle" /\ pc'[t] \notin LockPCs) =>
                  StepsLeft(pc'[t]) < 6

\* C8 (only rmutex_lock suspends): rmutex_trylock and rmutex_unlock are never
\* suspended and finish within a bounded number of steps
C8_OnlyLockSuspends == []C8_NeverSuspended /\ [][C8_BoundedStep]_vars

\* t is suspended in rmutex_lock (it cannot step) while u is inside
\* rmutex_trylock, about to return 0, and v is inside rmutex_unlock
C8_Witness ==
    \E t, u, v \in Threads :
        /\ pc[t] = "lock_wait"
        /\ ~ ENABLED Step(t)
        /\ pc[u] = "trylock_read"
        /\ pc[v] = "unlock_check"

\* ------------------------------------------------------------------- C9
\* C9: rmutex_trylock on a Free lock. When depth is 0 and no thread is inside
\* an operation, the acquire attempt of rmutex_trylock takes the inner mutex;
\* a thread that took it that way keeps it, can always take its next step
\* while the program runs, and returns 1 with owner = caller and depth 1.
AllIdle == \A t \in Threads : pc[t] = "idle"

FreshTrylock(t) == pc[t] \in {"trylock_store", "trylock_inc"} /\ held[t] = 0

C9_FreeTrylockStep ==
    \A t \in Threads :
        Stepped(t) =>
            /\ (AllIdle /\ refcount = 0 /\ pc'[t] \in TrylockPCs) =>
                  (pc'[t] = "trylock_store" /\ mutex' = t)
            /\ (FreshTrylock(t) /\ pc[t] = "trylock_store") =>
                  (pc'[t] = "trylock_inc" /\ owner' = t /\ mutex' = t)
            /\ (FreshTrylock(t) /\ pc[t] = "trylock_inc") =>
                  /\ pc'[t] = "idle"
                  /\ returned' = [t |-> t, op |-> "trylock", val |-> 1, waited |-> FALSE]
                  /\ owner' = t
                  /\ refcount' = 1
                  /\ mutex' = t
                  /\ held'[t] = 1

C9_FreshHolder ==
    \A t \in Threads :
        FreshTrylock(t) =>
            /\ mutex = t
            /\ refcount = 0
            /\ Running => ENABLED trylock_step(t)

\* C9 (rmutex_trylock on a Free lock returns 1 at depth 1): each step is as
\* C9_FreeTrylockStep states, and the fresh holder is never disturbed
C9_TrylockOnFree == []C9_FreshHolder /\ [][C9_FreeTrylockStep]_vars

\* rmutex_trylock returned 1 to t, which holds the lock at depth 1, and no
\* other thread is inside an operation
C9_Witness ==
    \E t \in Threads :
        /\ returned = [t |-> t, op |-> "trylock", val |-> 1, waited |-> FALSE]
        /\ AllIdle
        /\ held[t] = 1
        /\ owner = t
        /\ refcount = 1
        /\ mutex = t
\* ------------------------------------------------------------------ C10
\* The atomic machine: its state is <<0, 0>> (Free) or <<t, n>> (HeldBy(t, n)).
Free == <<KERNEL_PID_UNDEF, 0>>

\* the effect of operation o of thread t, returning v, on the atomic machine;
\* lock by a thread other than the holder has no transition (it blocks)
Atomic(t, o, a, b, v) ==
    CASE o = "lock" ->
            /\ v = 0
            /\ \/ (a = Free /\ b = <<t, 1>>)
               \/ (a[1] = t /\ b = <<t, a[2] + 1>>)
      [] o = "trylock" ->
            \/ (a = Free /\ b = <<t, 1>> /\ v = 1)
            \/ (a[1] = t /\ b = <<t, a[2] + 1>> /\ v = 1)
            \/ (a[1] \notin {KERNEL_PID_UNDEF, t} /\ b = a /\ v = 0)
      [] o = "unlock" ->
            /\ v = 0
            /\ \/ (a[1] = t /\ a[2] > 1 /\ b = <<t, a[2] - 1>>)
               \/ (a = <<t, 1>> /\ b = Free)
      [] OTHER -> FALSE

\* the state of the atomic machine a state of the program stands for: the
\* holder of the inner mutex holds the lock, at the stored depth once it is
\* stored and at depth 1 before the first increment and after the last
\* decrement
AbsOf(m, rc) ==
    IF m = KERNEL_PID_UNDEF THEN Free ELSE <<m, IF rc = 0 THEN 1 ELSE rc>>

\* the operation a statement belongs to
OpOf(l) ==
    CASE l \in LockPCs -> "lock"
      [] l \in TrylockPCs -> "trylock"
      [] l \in UnlockPCs -> "unlock"
      [] OTHER -> "none"

\* where the call of t stands: not called ("idle"), called and not yet in
\* effect ("pending"), in effect and not yet returned ("done"). It takes
\* effect: a first acquisition when the inner mutex is taken, a re-entry at
\* the increment, a failing rmutex_trylock at its failed acquire attempt, an
\* unlock at the decrement when depth stays positive and at the release of
\* the inner mutex otherwise.
PhaseOf(t, l, lo, m, rc) ==
    CASE l = "idle" -> "idle"
      [] l = "assert_failed" -> "aborted"
      [] l \in {"lock_store", "lock_inc", "trylock_store", "trylock_inc"} ->
            IF lo = t THEN "pending" ELSE "done"
      [] l = "trylock_read" -> IF m = t THEN "pending" ELSE "done"
      [] l = "unlock_check" -> IF rc > 0 THEN "done" ELSE "pending"
      [] OTHER -> "pending"

\* the value a call in effect is going to return
ValOf(l) == IF l \in {"trylock_store", "trylock_inc"} THEN 1 ELSE 0

Phase(t) == PhaseOf(t, pc[t], local_owner[t], mutex, refcount)
PhaseNext(t) == PhaseOf(t, pc'[t], local_owner'[t], mutex', refcount')
Abs == AbsOf(mutex, refcount)
AbsNext == AbsOf(mutex', refcount')

\* the step of t puts its call into effect
TakesEffect(t) ==
    \/ (Phase(t) \in {"idle", "pending"} /\ PhaseNext(t) = "done")
    \/ (Phase(t) = "pending" /\ PhaseNext(t) = "idle")

\* C10: linearizability against the atomic machine. Every step of a thread,
\* except the failing assertion of an rmutex_unlock called by a thread that
\* does not hold the lock, either leaves the state of the atomic machine
\* unchanged or is the one instant at which the thread's pending call takes
\* effect as a transition of the atomic machine; a call takes effect exactly
\* once between its first and its last step, the value fixed at that instant
\* is the value returned, and no step changes where another thread's call
\* stands.
C10_RefinementStep ==
    \A t \in Threads :
        Stepped(t) =>
            LET o == IF pc[t] = "idle" THEN OpOf(pc'[t]) ELSE OpOf(pc[t])
                v == IF PhaseNext(t) = "done" THEN ValOf(pc'[t]) ELSE returned'.val
            IN  /\ \A u \in Threads \ {t} : pc'[u] = pc[u] /\ PhaseNext(u) = Phase(u)
                /\ IF pc'[t] = "assert_failed"
                     THEN pc[t] = "idle" /\ held[t] = 0 /\ AbsNext = Abs
                     ELSE /\ Phase(t) = "done" => PhaseNext(t) \in {"done", "idle"}
                          /\ PhaseNext(t) = "pending" => Phase(t) \in {"idle", "pending"}
                          /\ IF TakesEffect(t)
                               THEN Atomic(t, o, Abs, AbsNext, v)
                               ELSE AbsNext = Abs
                          /\ (Phase(t) = "done" /\ PhaseNext(t) = "done") =>
                                ValOf(pc'[t]) = ValOf(pc[t])
                          /\ pc'[t] = "idle" =>
                                /\ returned'.t = t
                                /\ returned'.op = o
                                /\ Phase(t) = "done" => returned'.val = ValOf(pc[t])

\* the atomic machine's state agrees with what the threads were told
C10_AbsAgrees ==
    \A t \in Threads :
        /\ (held[t] > 0 /\ Phase(t) \in {"idle", "pending"}) => Abs = <<t, held[t]>>
        /\ (held[t] > 0 /\ Phase(t) = "done") => Abs[1] = t
        /\ (held[t] = 0 /\ Phase(t) \in {"idle", "pending"}) => Abs[1] # t
        /\ (held[t] = 0 /\ Phase(t) = "done" /\ ValOf(pc[t]) = 1) => Abs = <<t, 1>>

\* C10 (linearizability): the atomic state agrees with what the threads were
\* told, and every step refines the atomic machine
C10_Linearizable == []C10_AbsAgrees /\ [][C10_RefinementStep]_vars

\* the re-entrant rmutex_trylock of t has returned 1 at depth 2, while the
\* failing rmutex_trylock of u is in effect and not yet returned and v is
\* suspended in rmutex_lock
C10_Witness ==
    \E t, u, v \in Threads :
        /\ Abs = <<t, 2>>
        /\ held[t] = 2
        /\ returned = [t |-> t, op |-> "trylock", val |-> 1, waited |-> FALSE]
        /\ pc[u] = "trylock_read"
        /\ Phase(u) = "done"
        /\ pc[v] = "lock_wait"
\* ------------------------------------------------------------------ C11
\* C11: invariant I1. In every reachable state, the states in the middle of
\* an operation included, depth > 0 implies that owner is the identifier of a
\* real thread and that this thread holds the inner mutex.
C11_I1 ==
    refcount > 0 => (owner \in Threads /\ mutex = owner)

\* depth is 2 in the middle of the owner's rmutex_unlock (before line 140),
\* while another thread is in the middle of rmutex_lock, about to read owner
C11_Witness ==
    \E t, u \in Threads :
        /\ refcount = 2
        /\ owner = t
        /\ mutex = t
        /\ pc[t] = "unlock_dec"
        /\ pc[u] = "lock_read"

\* ------------------------------------------------------------------ C12
\* owner and depth agree: owner is a real thread exactly when depth > 0
OwnerDepthAgree ==
    /\ owner \in Threads => refcount > 0
    /\ refcount = 0 => owner = KERNEL_PID_UNDEF

\* the owner is between its store of owner and its increment (lines 94-99,
\* 125-128) or between its decrement and its clearing of owner (lines 140-149)
OwnerInTransit ==
    /\ owner \in Threads
    /\ refcount = 0
    /\ mutex = owner
    /\ pc[owner] \in {"lock_inc", "trylock_inc", "unlock_check", "unlock_clear"}

\* C12 as stated: in every state a concurrently running thread can observe,
\* depth > 0 whenever owner is a real thread identifier, and depth = 0 implies
\* owner = KERNEL_PID_UNDEF.
C12_Original == OwnerDepthAgree

\* C12 as amended: owner and depth agree in every state except while the
\* thread stored in owner, holding the inner mutex, is between its store of
\* owner and its first increment or between its last decrement and its
\* clearing of owner; depth is 0 in those states.
C12_AgreeOutsideTransit == OwnerDepthAgree \/ OwnerInTransit

\* a contending thread is about to read owner while the owner is between its
\* last decrement and the clearing of owner: owner is real and depth is 0
C12_Witness ==
    \E t, u \in Threads :
        /\ pc[t] = "unlock_clear"
        /\ owner = t
        /\ refcount = 0
        /\ pc[u] \in {"lock_read", "trylock_read"}
\* ------------------------------------------------------------------ C13
\* C13 as stated: when the first non-blocking acquire of rmutex_trylock has
\* failed and the owner it reads is not the caller, it makes a second
\* non-blocking acquire of the inner mutex: it returns 0 only if that acquire
\* fails (the inner mutex is held), and otherwise takes the inner mutex and
\* goes on to set owner, increment depth and return 1.
C13_SecondAcquireStep ==
    \A t \in Threads :
        (Stepped(t) /\ pc[t] = "trylock_read" /\ foreign(owner, t)) =>
            IF mutex = KERNEL_PID_UNDEF
              THEN mutex' = t /\ pc'[t] = "trylock_store"
              ELSE pc'[t] = "idle" /\ returned'.val = 0 /\ mutex' = mutex

\* C13 as stated: every step is as C13_SecondAcquireStep states
C13_Original == [][C13_SecondAcquireStep]_vars

\* C13 as amended: rmutex_trylock makes one non-blocking acquire of the inner
\* mutex, its first access. When that has failed and the owner it reads is
\* not the caller, it returns 0 at once, whether or not the inner mutex is
\* still held, and writes nothing; when the owner it reads is the caller it
\* goes on to the assertion; and the call that reaches line 125 sets owner,
\* increments depth and returns 1.
C13_SingleAcquireStep ==
    \A t \in Threads :
        Stepped(t) =>
            /\ (pc[t] = "trylock_read" /\ foreign(owner, t)) =>
                  /\ pc'[t] = "idle"
                  /\ returned' = [t |-> t, op |-> "trylock", val |-> 0, waited |-> FALSE]
                  /\ UNCHANGED <<mutex, owner, refcount, held>>
            /\ (pc[t] = "trylock_read" /\ ~foreign(owner, t)) =>
                  /\ pc'[t] = "trylock_assert"
                  /\ UNCHANGED <<mutex, owner, refcount, held>>
            /\ pc[t] \in TrylockPCs => mutex' = mutex
            /\ pc[t] = "trylock_store" => (owner' = t /\ pc'[t] = "trylock_inc")
            /\ pc[t] = "trylock_inc" =>
                  /\ refcount' = refcount + 1
                  /\ owner' = t
                  /\ pc'[t] = "idle"
                  /\ returned' = [t |-> t, op |-> "trylock", val |-> 1, waited |-> FALSE]

\* C13 as amended (a single acquire, then 0 at once): every step is as
\* C13_SingleAcquireStep states
C13_SingleAcquire == [][C13_SingleAcquireStep]_vars

\* rmutex_trylock has returned 0 to t although the inner mutex was free when t
\* read owner: it is still free, and no call has returned since
C13_Witness ==
    \E t \in Threads :
        /\ returned = [t |-> t, op |-> "trylock", val |-> 0, waited |-> FALSE]
        /\ mutex = KERNEL_PID_UNDEF
        /\ AllIdle
\* ------------------------------------------------------------------ C14
\* C14: owner is cleared before the physical release. In every reachable
\* state in which the inner mutex is not held, owner = KERNEL_PID_UNDEF and
\* depth = 0; and a thread that has just taken the inner mutex (it is at the
\* store of owner and did not read its own identifier) finds owner =
\* KERNEL_PID_UNDEF and depth 0.
C14_ClearedBeforeRelease ==
    /\ mutex = KERNEL_PID_UNDEF => (owner = KERNEL_PID_UNDEF /\ refcount = 0)
    /\ \A t \in Threads :
          (pc[t] \in {"lock_store", "trylock_store"} /\ local_owner[t] # t) =>
              (mutex = t /\ owner = KERNEL_PID_UNDEF /\ refcount = 0)

\* t, which had read the previous holder's identifier and was suspended, has
\* just taken the inner mutex after that holder's release and finds owner
\* cleared
C14_Witness ==
    \E t \in Threads :
        /\ pc[t] = "lock_store"
        /\ local_owner[t] \in Threads \ {t}
        /\ returned = [t |-> local_owner[t], op |-> "unlock", val |-> 0, waited |-> FALSE]
        /\ mutex = t
        /\ owner = KERNEL_PID_UNDEF

\* ------------------------------------------------------------------ C15
\* the thread that is at the assertion of the already-own-it branch has read
\* its own identifier after a failed acquire
C15_OwnerHoldsMutex ==
    \A t \in Threads :
        /\ owner = t => mutex = t
        /\ pc[t] \in {"lock_assert", "trylock_assert"} =>
              (local_owner[t] = t /\ mutex = t /\ held[t] >= 1)

C15_StoreStep ==
    \A t \in Threads :
        Stepped(t) =>
            /\ owner' # owner => owner' \in {t, KERNEL_PID_UNDEF}
            /\ pc[t] \in {"lock_store", "trylock_store"} => owner' = t
            /\ pc[t] = "unlock_clear" => owner' = KERNEL_PID_UNDEF
            /\ pc[t] \notin {"lock_store", "trylock_store", "unlock_clear"} => owner' = owner

\* C15: the self-owner classification is race-free. In every reachable state
\* owner = t implies that t holds the inner mutex; every store to owner writes
\* the storing thread's own identifier or KERNEL_PID_UNDEF; and a thread that
\* has read its own identifier after a failed acquire is the holder.
C15_SelfOwnerRaceFree == []C15_OwnerHoldsMutex /\ [][C15_StoreStep]_vars

\* t has read its own identifier after a failed acquire while u, which read
\* t's identifier, is suspended
C15_Witness ==
    \E t, u \in Threads :
        /\ pc[t] = "lock_assert"
        /\ local_owner[t] = t
        /\ owner = t
        /\ pc[u] = "lock_wait"
        /\ local_owner[u] = t

\* ------------------------------------------------------------------ C16
\* C16: invariant I3. Every increment and every decrement of depth is made by
\* the thread whose identifier is in owner at that moment, and that thread
\* holds the inner mutex; every store to owner is made by the holder of the
\* inner mutex; no step of a thread that does not hold the inner mutex before
\* and after it changes owner or depth.
C16_WriterStep ==
    \A t \in Threads :
        Stepped(t) =>
            /\ pc[t] \in {"lock_inc", "trylock_inc"} =>
                  (owner = t /\ mutex = t /\ refcount' = refcount + 1)
            /\ pc[t] = "unlock_dec" =>
                  (owner = t /\ mutex = t /\ refcount' = refcount - 1)
            /\ pc[t] \in {"lock_store", "trylock_store", "unlock_clear"} => mutex = t
            /\ (owner' # owner \/ refcount' # refcount) => (mutex = t /\ mutex' = t)

\* C16 (I3): every step is as C16_WriterStep states
C16_I3 == [][C16_WriterStep]_vars

\* the owner has made the first of its two decrements while another thread is
\* suspended
C16_Witness ==
    \E t, u \in Threads :
        /\ pc[t] = "unlock_check"
        /\ held[t] = 2
        /\ refcount = 1
        /\ owner = t
        /\ mutex = t
        /\ pc[u] = "lock_wait"

\* ------------------------------------------------------------------ C17
C17_AssertReached ==
    \A t \in Threads :
        pc[t] \in {"lock_assert", "trylock_assert"} => (local_owner[t] = t /\ refcount > 0)

C17_AssertStep ==
    \A t \in Threads :
        (Stepped(t) /\ pc'[t] = "assert_failed") =>
            /\ pc[t] \notin LockPCs \cup TrylockPCs
            /\ pc[t] = "idle"
            /\ held[t] = 0

\* C17: the assertion refcount > 0 of the already-own-it branch never fails.
\* Whenever a thread whose acquire failed has read its own identifier in owner
\* and is at the assertion of line 83 or 118, depth > 0; the only assertion
\* that ever fails is that of an rmutex_unlock called by a thread that does
\* not hold the lock.
C17_OwnAssertNeverFails == []C17_AssertReached /\ [][C17_AssertStep]_vars

\* t, holding the lock at depth 1, is at the assertion of rmutex_trylock while
\* u, whose acquire failed too, is about to read owner
C17_Witness ==
    \E t, u \in Threads :
        /\ pc[t] = "trylock_assert"
        /\ refcount = 1
        /\ held[t] = 1
        /\ pc[u] = "lock_read"

\* ------------------------------------------------------------------ C18
\* the statements that read or write rmutex->refcount (lines 83, 99, 118, 128,
\* 135, 140, 143)
RefcountPCs == {"lock_assert", "lock_inc", "trylock_assert", "trylock_inc",
                "unlock_assert2", "unlock_dec", "unlock_check"}

C18_RefcountUnderMutex ==
    /\ \A t \in Threads : pc[t] \in RefcountPCs => mutex = t
    /\ \A t \in Threads :
          mutex # t => pc[t] \in {"idle", "lock_read", "lock_wait", "trylock_read",
                                   "assert_failed"}
    /\ Cardinality({t \in Threads : pc[t] \in RefcountPCs}) <= 1

C18_NonOwnerUnlockStep ==
    \A t \in Threads :
        (Stepped(t) /\ pc[t] = "idle" /\ mutex # t
            /\ pc'[t] \in UnlockPCs \cup {"assert_failed"}) =>
                (pc'[t] = "assert_failed" /\ refcount' = refcount)

\* C18: refcount is never read or written by a thread that does not hold the
\* inner mutex. A thread about to access refcount holds the inner mutex, a
\* thread that does not hold it is only at statements that access the inner
\* mutex or owner, an rmutex_unlock of a non-holder stops at the owner
\* assertion, and at most one thread is at an access of refcount.
C18_RefcountRaceFree == []C18_RefcountUnderMutex /\ [][C18_NonOwnerUnlockStep]_vars

\* the rmutex_unlock of a non-holder t stopped at the owner assertion while the
\* holder u is about to decrement refcount
C18_Witness ==
    \E t, u \in Threads :
        /\ t # u
        /\ pc[t] = "assert_failed"
        /\ mutex = u
        /\ pc[u] = "unlock_dec"
====
